---- MODULE Spec2Model ----
(***************************************************************************)
(* A model of simple_survey_processor.py: the schema indexer               *)
(* (create_question_mapping), the SPSS variable-name sanitizer             *)
(* (create_spss_variable_names), the response flattener                    *)
(* (process_responses) and the dataset assembly and two-tier export of     *)
(* main.                                                                   *)
(*                                                                         *)
(* Python strings that the code inspects character by character (question *)
(* keys, answer texts) are sequences of one-character strings.  Display    *)
(* texts, which the code only copies, are TLA+ strings.  Python dicts are  *)
(* functions; the questions dict, whose iteration order the code depends   *)
(* on, also keeps its keys in insertion order.                             *)
(***************************************************************************)
EXTENDS Integers, Sequences, FiniteSets, TLC

VARIABLES
    pc,                   \* position of the program
    mappings,             \* result of create_question_mapping
    key_i,                \* create_spss_variable_names: keys already named
    spss_names,           \* dict original key -> SPSS name
    name_counter,         \* dict base name -> next collision counter
    processed_responses,  \* process_responses: the rows appended so far
    processed,            \* process_responses: the row being built
    answers,              \* answers of the current response handled so far
    df,                   \* main: the DataFrame
    labels,               \* main: column_labels, spss_value_labels, text_variables
    df_numeric,           \* main: the fallback copy of df
    text_value_labels,    \* main: fallback code -> text tables
    combined_value_labels,\* main: merged value labels handed to the fallback export
    export_log,           \* outcomes of the write_sav calls, in order
    raised                \* the exception caught by main's handlers, or "none"

vars == <<pc, mappings, key_i, spss_names, name_counter, processed_responses,
          processed, answers, df, labels, df_numeric, text_value_labels,
          combined_value_labels, export_log, raised>>

-----------------------------------------------------------------------------
(* Bounds of the model *)

\* Elements of a drawn schema (registered keys) in the naming specification.
MaxKeys == 3

-----------------------------------------------------------------------------
(* Program constants *)

\* len(original_key) <= 64 and the [:64] truncation
MaxNameLen == 64
\* clean_name[:60]
BaseLen == 60
\* len(original_key) == 36
UuidLen == 36
\* original_key.count('-') == 4
UuidHyphens == 4
\* the "missing" sentinel
Missing == -999

-----------------------------------------------------------------------------
(* Strings *)

Lower == {"a","b","c","d","e","f","g","h","i","j","k","l","m",
          "n","o","p","q","r","s","t","u","v","w","x","y","z"}
Upper == {"A","B","C","D","E","F","G","H","I","J","K","L","M",
          "N","O","P","Q","R","S","T","U","V","W","X","Y","Z"}
Digit == {"0","1","2","3","4","5","6","7","8","9"}

\* c * n
Rep(c, n) == [i \in 1..n |-> c]

\* s[:n]
Prefix(s, n) == IF Len(s) <= n THEN s ELSE SubSeq(s, 1, n)

\* s.count(c) for a one-character c
Count(s, c) == Cardinality({i \in 1..Len(s) : s[i] = c})

\* s.replace(old, new) for one-character old and new
ReplaceChar(s, old, new) == [i \in 1..Len(s) |-> IF s[i] = old THEN new ELSE s[i]]

\* s.replace(tok, ''): leftmost non-overlapping occurrences removed
RECURSIVE RemoveToken(_, _)
RemoveToken(s, tok) ==
    IF Len(s) < Len(tok) THEN s
    ELSE IF SubSeq(s, 1, Len(tok)) = tok
         THEN RemoveToken(SubSeq(s, Len(tok) + 1, Len(s)), tok)
         ELSE <<Head(s)>> \o RemoveToken(Tail(s), tok)

\* s.isalnum(): non-empty, letters and digits only
IsAlnum(s) == Len(s) > 0 /\ \A i \in 1..Len(s) : s[i] \in Lower \cup Upper \cup Digit

\* s.startswith(c) for a one-character c
StartsWith(s, c) == Len(s) > 0 /\ s[1] = c

\* str(n) for n >= 0
RECURSIVE NatToStr(_)
NatToStr(n) ==
    LET d == <<"0","1","2","3","4","5","6","7","8","9">>[(n % 10) + 1]
    IN  IF n < 10 THEN <<d>> ELSE NatToStr(n \div 10) \o <<d>>

\* str(n)
IntToStr(n) == IF n < 0 THEN <<"-">> \o NatToStr(-n) ELSE NatToStr(n)

\* f"{n:03d}" for n >= 0
Format03d(n) == LET s == NatToStr(n) IN IF Len(s) < 3 THEN Rep("0", 3 - Len(s)) \o s ELSE s

\* s.strip() (blanks are the only whitespace of the model's texts)
RECURSIVE LStrip(_)
LStrip(s) == IF Len(s) > 0 /\ Head(s) = " " THEN LStrip(Tail(s)) ELSE s
RECURSIVE RStrip(_)
RStrip(s) == IF Len(s) > 0 /\ s[Len(s)] = " " THEN RStrip(SubSeq(s, 1, Len(s) - 1)) ELSE s
Strip(s) == RStrip(LStrip(s))

-----------------------------------------------------------------------------
(* Values: JSON payloads and DataFrame cells *)

NoneV == [k |-> "none", n |-> 0, s |-> <<>>]
IntV(n) == [k |-> "int", n |-> n, s |-> <<>>]
StrV(s) == [k |-> "str", n |-> 0, s |-> s]

\* dict.values()
Values(d) == {d[k] : k \in DOMAIN d}

\* d[k] = v
DictSet(d, k, v) == (k :> v) @@ d

\* d.get(k), None being NoneV
DictGet(d, k) == IF k \in DOMAIN d THEN d[k] ELSE NoneV

\* the empty dict
EmptyDict == <<>>

-----------------------------------------------------------------------------
(* create_question_mapping *)

\* d[key] = v for a dict whose iteration order the code uses (questions,
\* value_labels): a new key is appended to the order, an existing key keeps
\* its place
OrderedSet(q, key, qdef) ==
    [order |-> IF key \in DOMAIN q.def THEN q.order ELSE Append(q.order, key),
     def   |-> DictSet(q.def, key, qdef)]

EmptyMappings ==
    [questions |-> [order |-> <<>>, def |-> EmptyDict],
     id_to_key |-> EmptyDict, value_labels |-> [order |-> <<>>, def |-> EmptyDict],
     choice_to_key |-> EmptyDict, element_to_key |-> EmptyDict,
     measurement_types |-> EmptyDict]

\* col_labels / radio_labels: entries with a value, int(value) -> text
RECURSIVE LabelsOf(_)
LabelsOf(items) ==
    IF items = <<>> THEN EmptyDict
    ELSE LET rest == LabelsOf(SubSeq(items, 1, Len(items) - 1))
             it   == items[Len(items)]
         IN  IF it.value # NoneV THEN DictSet(rest, it.value.n, it.text) ELSE rest

\* the rows of a Matrix element
RECURSIVE MapMatrixRows(_, _, _)
MapMatrixRows(m, rows, col_labels) ==
    IF rows = <<>> THEN m
    ELSE LET row == Head(rows)
             m1  == IF row.itemKey # <<>>
                    THEN [m EXCEPT
                            !.questions = OrderedSet(@, row.itemKey,
                                [type |-> "Matrix", text |-> row.text, id |-> row.id]),
                            !.id_to_key = DictSet(@, row.id, row.itemKey),
                            !.measurement_types = DictSet(@, row.itemKey, "Nominal"),
                            !.value_labels = IF col_labels # EmptyDict
                                             THEN OrderedSet(@, row.itemKey, col_labels)
                                             ELSE @]
                    ELSE m
         IN  MapMatrixRows(m1, Tail(rows), col_labels)

\* the choices of a Radiogroup element indexed in choice_to_key
RECURSIVE MapChoices(_, _, _)
MapChoices(c2k, choices, item_key) ==
    IF choices = <<>> THEN c2k
    ELSE LET ch == Head(choices)
         IN  MapChoices(IF ch.value # NoneV THEN DictSet(c2k, ch.id, item_key) ELSE c2k,
                        Tail(choices), item_key)

\* the body of the loop over elements
MapElement(m, element) ==
    CASE element.type = "Matrix" ->
           MapMatrixRows(m, element.rows, LabelsOf(element.columns))
      [] element.type = "Radiogroup" ->
           IF element.itemKey # <<>>
           THEN LET radio_labels == LabelsOf(element.choices)
                IN [m EXCEPT
                      !.questions = OrderedSet(@, element.itemKey,
                          [type |-> "Radiogroup", text |-> element.title, id |-> element.id]),
                      !.id_to_key = DictSet(@, element.id, element.itemKey),
                      !.measurement_types = DictSet(@, element.itemKey, "Nominal"),
                      !.choice_to_key = MapChoices(@, element.choices, element.itemKey),
                      !.value_labels = IF radio_labels # EmptyDict
                                       THEN OrderedSet(@, element.itemKey, radio_labels)
                                       ELSE @]
           ELSE m
      [] element.type = "Number" ->
           IF element.itemKey # <<>>
           THEN [m EXCEPT
                   !.questions = OrderedSet(@, element.itemKey,
                       [type |-> "Number", text |-> element.title, id |-> element.id]),
                   !.id_to_key = DictSet(@, element.id, element.itemKey),
                   !.element_to_key = DictSet(@, element.id, element.itemKey),
                   !.measurement_types = DictSet(@, element.itemKey, "Scale")]
           ELSE m
      [] element.type = "Text" ->
           LET item_key == IF element.itemKey # <<>> THEN element.itemKey
                           ELSE <<"t","e","x","t","_">> \o IntToStr(element.id)
           IN [m EXCEPT
                 !.questions = OrderedSet(@, item_key,
                     [type |-> "Text", text |-> element.title, id |-> element.id]),
                 !.element_to_key = DictSet(@, element.id, item_key),
                 !.measurement_types = DictSet(@, item_key, "Nominal")]
      [] OTHER -> m

RECURSIVE MapElements(_, _)
MapElements(m, elements) ==
    IF elements = <<>> THEN m
    ELSE MapElements(MapElement(m, Head(elements)), Tail(elements))

RECURSIVE MapPages(_, _)
MapPages(m, pages) ==
    IF pages = <<>> THEN m ELSE MapPages(MapElements(m, Head(pages)), Tail(pages))

CreateQuestionMapping(survey_data) == MapPages(EmptyMappings, survey_data)

\* Elements of the schema document
TextElement(id, key, title) ==
    [type |-> "Text", id |-> id, itemKey |-> key, title |-> title,
     rows |-> <<>>, columns |-> <<>>, choices |-> <<>>]
NumberElement(id, key, title) ==
    [type |-> "Number", id |-> id, itemKey |-> key, title |-> title,
     rows |-> <<>>, columns |-> <<>>, choices |-> <<>>]
RadiogroupElement(id, key, title, choices) ==
    [type |-> "Radiogroup", id |-> id, itemKey |-> key, title |-> title,
     rows |-> <<>>, columns |-> <<>>, choices |-> choices]
MatrixElement(id, rows, columns) ==
    [type |-> "Matrix", id |-> id, itemKey |-> <<>>, title |-> "",
     rows |-> rows, columns |-> columns, choices |-> <<>>]
OtherElement(id) ==
    [type |-> "Html", id |-> id, itemKey |-> <<>>, title |-> "",
     rows |-> <<>>, columns |-> <<>>, choices |-> <<>>]

-----------------------------------------------------------------------------
(* create_spss_variable_names *)

TokOFF == <<"O","F","F">>
TokMERK == <<"M","E","R","K">>
TokCUSTOM == <<"C","U","S","T","O","M">>
TokPAGE == <<"P","A","G","E">>

\* the condition of line 159: an already valid short name
IsValidShortName(key) ==
    /\ Len(key) <= MaxNameLen
    /\ Count(key, "-") = 0
    /\ IsAlnum(RemoveToken(RemoveToken(RemoveToken(RemoveToken(
           SelectSeq(key, LAMBDA c : c # "_"), TokOFF), TokMERK), TokCUSTOM), TokPAGE))

\* the condition of line 163: UUID format
IsUuidShaped(key) == Count(key, "-") = UuidHyphens /\ Len(key) = UuidLen

\* line 165: the names already assigned that start with 'Q'
PlaceholderCount(names) == Cardinality({k \in DOMAIN names : StartsWith(names[k], "Q")})

\* line 166
PlaceholderName(names) == <<"Q">> \o Format03d(PlaceholderCount(names) + 1)

\* line 170
CleanName(key) == Prefix(ReplaceChar(ReplaceChar(key, "-", "_"), " ", "_"), MaxNameLen)

\* line 173
BaseName(clean_name) == Prefix(clean_name, BaseLen)

\* f"{base_name}_{counter}"
Suffixed(base_name, counter) == base_name \o <<"_">> \o IntToStr(counter)

\* line 174: where the search for a free counter starts (StartCounterOff: the
\* same with a default of 0)
StartCounterOff(counters, base_name) == IF base_name \in DOMAIN counters THEN counters[base_name] ELSE 0
StartCounter(counters, base_name) == IF base_name \in DOMAIN counters THEN counters[base_name] ELSE 1

\* lines 175-176: the first counter from c on whose suffixed name is unused
RECURSIVE FreeCounter(_, _, _)
FreeCounter(names, base_name, c) ==
    IF Suffixed(base_name, c) \in Values(names) THEN FreeCounter(names, base_name, c + 1) ELSE c

\* The body of the loop of lines 157-180 on one key: the state st holds the
\* two dicts.
NameKey(st, key) ==
    IF IsValidShortName(key)
    THEN [st EXCEPT !.names = DictSet(@, key, key)]
    ELSE IF IsUuidShaped(key)
    THEN [st EXCEPT !.names = DictSet(@, key, PlaceholderName(st.names))]
    ELSE LET clean_name == CleanName(key)
         IN IF clean_name \in Values(st.names)
            THEN LET base_name == BaseName(clean_name)
                     counter   == FreeCounter(st.names, base_name,
                                              StartCounter(st.counters, base_name))
                 IN [names    |-> DictSet(st.names, key, Suffixed(base_name, counter)),
                     counters |-> DictSet(st.counters, base_name, counter + 1)]
            ELSE [st EXCEPT !.names = DictSet(@, key, clean_name)]

RECURSIVE NameKeys(_, _)
NameKeys(st, keys) ==
    IF keys = <<>> THEN st ELSE NameKeys(NameKey(st, Head(keys)), Tail(keys))

\* create_spss_variable_names(questions): the returned dict
CreateSpssVariableNames(questions) ==
    NameKeys([names |-> EmptyDict, counters |-> EmptyDict], questions.order).names

-----------------------------------------------------------------------------
(* The naming specification: create_spss_variable_names, one key per step, *)
(* on the registry of a drawn schema.                                      *)

KeyQ1 == <<"Q","1">>
KeyQ002 == <<"Q","0","0","2">>
KeySchl1 == <<"S","c","h","l","_","1">>
KeyAUnderB == <<"a","_","b">>
KeyAHyphenB == <<"a","-","b">>
KeyASpaceB == <<"a"," ","b">>
KeyADotB == <<"a",".","b">>
KeyUuid1 == Rep("a", 8) \o <<"-">> \o Rep("a", 4) \o <<"-">> \o Rep("a", 4) \o <<"-">>
            \o Rep("a", 4) \o <<"-">> \o Rep("a", 12)
KeyUuid2 == Rep("b", 8) \o <<"-">> \o Rep("b", 4) \o <<"-">> \o Rep("b", 4) \o <<"-">>
            \o Rep("b", 4) \o <<"-">> \o Rep("b", 12)
\* two keys with the same first 64 characters
KeyLongA == Rep("x", 64) \o <<"-","a">>
KeyLongB == Rep("x", 64) \o <<"-","b">>
KeyLongD == Rep("x", 64) \o <<" ","d">>
\* the same first 60 characters as KeyLongA, another 64-character clean name
KeyLongC == Rep("x", 60) \o <<"c","c","c","c","-","c">>
\* a valid short name that is the first suffixed name of KeyLongA's base
KeyBase1 == Rep("x", 60) \o <<"_","1">>

\* an element without itemKey has the empty key
NoKey == <<>>

KeyPool == {NoKey, KeyQ1, KeyQ002, KeySchl1, KeyAUnderB, KeyAHyphenB, KeyASpaceB,
            KeyADotB, KeyUuid1, KeyUuid2, KeyLongA, KeyLongB, KeyLongD,
            KeyLongC, KeyBase1}

\* One page of Text elements with ids 1..n and the given keys
TextPage(keys) == [i \in 1..Len(keys) |-> TextElement(i, keys[i], "title")]

KeySeqs == UNION {[1..n -> KeyPool] : n \in 0..MaxKeys}

\* Values of the variables a specification does not use
Idle ==
    /\ processed_responses = <<>>
    /\ processed = EmptyDict
    /\ answers = <<>>
    /\ df = <<>>
    /\ labels = EmptyDict
    /\ df_numeric = <<>>
    /\ text_value_labels = EmptyDict
    /\ combined_value_labels = EmptyDict
    /\ export_log = <<>>
    /\ raised = "none"

InitNames ==
    /\ \E keys \in KeySeqs : mappings = CreateQuestionMapping(<<TextPage(keys)>>)
    /\ pc = "naming"
    /\ key_i = 0
    /\ spss_names = EmptyDict
    /\ name_counter = EmptyDict
    /\ Idle

\* the key the loop of line 157 is at
NextKey == mappings.questions.order[key_i + 1]

NameStep ==
    LET st == NameKey([names |-> spss_names, counters |-> name_counter], NextKey)
    IN  /\ spss_names' = st.names
        /\ name_counter' = st.counters
        /\ key_i' = key_i + 1
        /\ UNCHANGED <<pc, mappings, processed_responses, processed, answers, df, labels,
                       df_numeric, text_value_labels, combined_value_labels, export_log,
                       raised>>

\* line 160: the key is kept
KeepValidName ==
    /\ pc = "naming" /\ key_i < Len(mappings.questions.order)
    /\ IsValidShortName(NextKey)
    /\ NameStep

\* lines 163-167: the next placeholder
AssignPlaceholder ==
    /\ pc = "naming" /\ key_i < Len(mappings.questions.order)
    /\ ~IsValidShortName(NextKey) /\ IsUuidShaped(NextKey)
    /\ NameStep

\* lines 170-180: the cleaned name, suffixed when taken
CleanAndSuffix ==
    /\ pc = "naming" /\ key_i < Len(mappings.questions.order)
    /\ ~IsValidShortName(NextKey) /\ ~IsUuidShaped(NextKey)
    /\ NameStep

\* line 182
ReturnNames ==
    /\ pc = "naming" /\ key_i = Len(mappings.questions.order)
    /\ pc' = "named"
    /\ UNCHANGED <<mappings, key_i, spss_names, name_counter, processed_responses,
                   processed, answers, df, labels, df_numeric, text_value_labels,
                   combined_value_labels, export_log, raised>>

NextNames == KeepValidName \/ AssignPlaceholder \/ CleanAndSuffix \/ ReturnNames

SpecNames == InitNames /\ [][NextNames]_vars

-----------------------------------------------------------------------------
(* process_responses *)

\* The two metadata columns
ColResponseId == <<"r","e","s","p","o","n","s","e","_","i","d">>
ColCreatedAt == <<"c","r","e","a","t","e","d","_","a","t">>

\* An answer whose target id field (row_id, choice_id, element_id) is absent
NoId == -1
\* An id that no row, choice or element of the schema has
UnknownId == 99

Answer(type, id, value, text) == [type |-> type, id |-> id, value |-> value, text |-> text]

\* index.get(str(id)): the key found, or None.  Ids are integers in the schema
\* and in the answers, on which str is one-to-one, so the indices are keyed by
\* the integers.
Lookup(index, id) == IF id \in DOMAIN index THEN StrV(index[id]) ELSE NoneV

\* lines 199-204: the defaults of the registered questions, in document order
RECURSIVE SeedDefaults(_, _, _, _)
SeedDefaults(row, keys, m, names) ==
    IF keys = <<>> THEN row
    ELSE LET key == Head(keys)
             default == IF m.questions.def[key].type = "Text" THEN StrV(<<>>) ELSE IntV(Missing)
         IN  SeedDefaults(DictSet(row, names[key], default), Tail(keys), m, names)

\* lines 193-204: the row of a response before its answers
SeedRow(response_id, created_at, m, names) ==
    SeedDefaults(DictSet(DictSet(EmptyDict, ColResponseId, response_id),
                         ColCreatedAt, created_at),
                 m.questions.order, m, names)

\* lines 230-234: the value of a text answer
TextValue(text) ==
    IF text # NoneV /\ text.s # <<>> /\ Strip(text.s) # <<>>
    THEN StrV(Strip(text.s))
    ELSE StrV(<<>>)

\* the subscripts answer['row_id'] and answer['element_id'] raise KeyError when
\* the field is absent; answer.get('choice_id') does not
RaisesKeyError(answer) ==
    answer.type \in {"matrix", "number", "text"} /\ answer.id = NoId

\* lines 208-234: question_key and value of an answer
Resolve(answer, m) ==
    CASE answer.type = "matrix" ->
           [question_key |-> Lookup(m.id_to_key, answer.id), value |-> answer.value]
      [] answer.type = "choice" ->
           [question_key |-> Lookup(m.choice_to_key, answer.id), value |-> answer.value]
      [] answer.type = "number" ->
           [question_key |-> Lookup(m.element_to_key, answer.id), value |-> answer.value]
      [] answer.type = "text" ->
           [question_key |-> Lookup(m.element_to_key, answer.id),
            value |-> TextValue(answer.text)]
      [] OTHER -> [question_key |-> NoneV, value |-> NoneV]

\* line 237: whether the answer is written to the row
IsWritten(r) == r.question_key # NoneV /\ r.value # NoneV

\* lines 237-239: the row after an answer that does not raise
\* (ApplyAnswerKeepFirst: the same writing only to a column that still holds
\* its default)
ApplyAnswerKeepFirst(row, answer, m, names) ==
    LET r == Resolve(answer, m)
    IN  IF IsWritten(r)
        THEN LET spss_var_name == IF r.question_key.s \in DOMAIN names
                                  THEN names[r.question_key.s] ELSE r.question_key.s
             IN  IF spss_var_name \in DOMAIN row
                    /\ row[spss_var_name] \notin {StrV(<<>>), IntV(Missing)}
                 THEN row
                 ELSE DictSet(row, spss_var_name, r.value)
        ELSE row
ApplyAnswer(row, answer, m, names) ==
    LET r == Resolve(answer, m)
    IN  IF IsWritten(r)
        THEN LET spss_var_name == IF r.question_key.s \in DOMAIN names
                                  THEN names[r.question_key.s] ELSE r.question_key.s
             IN  DictSet(row, spss_var_name, r.value)
        ELSE row

\* Reference schemas.  SurveyA: a Radiogroup Q1 with the choices 1 "Yes" and
\* 2 "No", a Number Q2, an element of a type the indexer does not know, and a
\* Text element without key.
SurveyA ==
    << << RadiogroupElement(1, KeyQ1, "Agree?",
              << [id |-> 11, value |-> IntV(1), text |-> "Yes"],
                 [id |-> 12, value |-> IntV(2), text |-> "No"] >>),
          NumberElement(2, <<"Q","2">>, "Age") >>,
       << OtherElement(3), TextElement(42, NoKey, "Comment") >> >>
\* SurveyB: a Matrix with a keyed and an unkeyed row and a column without
\* value, and a keyed Text element.
SurveyB ==
    << << MatrixElement(5,
              << [id |-> 51, itemKey |-> <<"M","_","1">>, text |-> "Row 1"],
                 [id |-> 52, itemKey |-> NoKey, text |-> "Row 2"] >>,
              << [value |-> IntV(1), text |-> "low"],
                 [value |-> IntV(2), text |-> "high"],
                 [value |-> NoneV, text |-> "n/a"] >>),
          TextElement(6, <<"n","o","t","e">>, "Note") >> >>
\* SurveyC: keys whose names meet: 'a-b' is cleaned to the valid key 'a_b',
\* and the key 'response_id' is the name of a metadata column.
SurveyC ==
    << << TextElement(1, KeyAHyphenB, "Free text"),
          NumberElement(2, KeyAUnderB, "Count"),
          NumberElement(3, ColResponseId, "Id") >> >>

Surveys == {SurveyA, SurveyB, SurveyC}

AnswerValues == {NoneV, IntV(2)}
AnswerTexts == {NoneV, StrV(<<" ">>), StrV(<<"a">>), StrV(<<" ","b"," ">>)}

\* target ids: those of the index, an unknown one, and an absent field
TargetIds(index) == DOMAIN index \cup {UnknownId, NoId}

\* The answers a response of the survey is drawn from
AnswerPool(m) ==
    {Answer("matrix", i, v, NoneV) : i \in TargetIds(m.id_to_key), v \in AnswerValues}
    \cup {Answer("choice", i, v, NoneV) : i \in TargetIds(m.choice_to_key), v \in AnswerValues}
    \cup {Answer("number", i, v, NoneV) : i \in TargetIds(m.element_to_key), v \in AnswerValues}
    \cup {Answer("text", i, NoneV, t) : i \in TargetIds(m.element_to_key), t \in AnswerTexts}
    \cup {Answer("rating", NoId, NoneV, NoneV)}

\* Responses of the flattening specification: at most MaxResponses responses
\* of at most MaxAnswers answers each.
MaxResponses == 2
MaxAnswers == 2

\* line 186-189
PR_CreateNames ==
    /\ pc = "start"
    /\ processed_responses' = <<>>
    /\ spss_names' = CreateSpssVariableNames(mappings.questions)
    /\ pc' = "responses"
    /\ UNCHANGED <<mappings, key_i, name_counter, processed, answers, df, labels,
                   df_numeric, text_value_labels, combined_value_labels, export_log,
                   raised>>

\* lines 191-204: the next response; its id is its position and it has no
\* createdAt (PR_BeginResponseReuse: the same with the row dict created once,
\* before the loop, so that the values of the response before stay in it)
PR_BeginResponseReuse(max_responses) ==
    /\ pc = "responses"
    /\ Len(processed_responses) < max_responses
    /\ LET seed == SeedRow(IntV(Len(processed_responses) + 1), NoneV, mappings, spss_names)
       IN  processed' = [col \in DOMAIN seed |->
                            IF col \in DOMAIN processed /\ col \notin {ColResponseId, ColCreatedAt}
                            THEN processed[col] ELSE seed[col]]
    /\ answers' = <<>>
    /\ pc' = "answers"
    /\ UNCHANGED <<mappings, key_i, spss_names, name_counter, processed_responses, df,
                   labels, df_numeric, text_value_labels, combined_value_labels,
                   export_log, raised>>
PR_BeginResponse(max_responses) ==
    /\ pc = "responses"
    /\ Len(processed_responses) < max_responses
    /\ processed' = SeedRow(IntV(Len(processed_responses) + 1), NoneV, mappings, spss_names)
    /\ answers' = <<>>
    /\ pc' = "answers"
    /\ UNCHANGED <<mappings, key_i, spss_names, name_counter, processed_responses, df,
                   labels, df_numeric, text_value_labels, combined_value_labels,
                   export_log, raised>>

\* lines 207-239: the next answer of the response
PR_HandleAnswer(pool, max_answers) ==
    /\ pc = "answers"
    /\ Len(answers) < max_answers
    /\ \E answer \in pool :
          /\ answers' = Append(answers, answer)
          /\ IF RaisesKeyError(answer)
             THEN /\ raised' = "KeyError"
                  /\ pc' = "raised"
                  /\ UNCHANGED processed
             ELSE /\ processed' = ApplyAnswer(processed, answer, mappings, spss_names)
                  /\ UNCHANGED <<pc, raised>>
    /\ UNCHANGED <<mappings, key_i, spss_names, name_counter, processed_responses, df,
                   labels, df_numeric, text_value_labels, combined_value_labels,
                   export_log>>

\* line 241: the response has no more answers
PR_AppendRow ==
    /\ pc = "answers"
    /\ processed_responses' = Append(processed_responses, processed)
    /\ pc' = "responses"
    /\ UNCHANGED <<mappings, key_i, spss_names, name_counter, processed, answers, df,
                   labels, df_numeric, text_value_labels, combined_value_labels,
                   export_log, raised>>

\* line 243: there are no more responses; the DataFrame of the rows is returned
\* and the locals of the loop are gone
PR_Return ==
    /\ pc = "responses"
    /\ df' = processed_responses
    /\ processed' = EmptyDict
    /\ answers' = <<>>
    /\ pc' = "returned"
    /\ UNCHANGED <<mappings, key_i, spss_names, name_counter, processed_responses,
                   labels, df_numeric, text_value_labels, combined_value_labels,
                   export_log, raised>>

\* The state in which main calls process_responses (line 264)
InitSurvey ==
    /\ \E survey_data \in Surveys : mappings = CreateQuestionMapping(survey_data)
    /\ pc = "start"
    /\ key_i = 0
    /\ spss_names = EmptyDict
    /\ name_counter = EmptyDict
    /\ Idle

FlattenHandleAnswer == PR_HandleAnswer(AnswerPool(mappings), MaxAnswers)
FlattenBeginResponse == PR_BeginResponse(MaxResponses)

NextFlatten ==
    \/ PR_CreateNames
    \/ FlattenBeginResponse
    \/ FlattenHandleAnswer
    \/ PR_AppendRow
    \/ PR_Return

SpecFlatten == InitSurvey /\ [][NextFlatten]_vars

-----------------------------------------------------------------------------
(* main: dataset assembly and the two-tier export *)

\* lines 267-274
RECURSIVE ColumnLabels(_, _, _)
ColumnLabels(keys, m, names) ==
    IF keys = <<>> THEN EmptyDict
    ELSE LET key == keys[Len(keys)]
         IN  DictSet(ColumnLabels(SubSeq(keys, 1, Len(keys) - 1), m, names),
                     names[key], m.questions.def[key].text)

\* lines 277-280
RECURSIVE SpssValueLabels(_, _, _)
SpssValueLabels(keys, m, names) ==
    IF keys = <<>> THEN EmptyDict
    ELSE LET key == keys[Len(keys)]
         IN  DictSet(SpssValueLabels(SubSeq(keys, 1, Len(keys) - 1), m, names),
                     names[key], m.value_labels.def[key])

\* lines 283-287
TextVariables(m, names) ==
    {names[key] : key \in {k \in DOMAIN m.questions.def : m.questions.def[k].type = "Text"}}

\* lines 266-287
BuildLabels(m, names) ==
    [column_labels |->
        DictSet(DictSet(ColumnLabels(m.questions.order, m, names),
                        ColResponseId, "Response ID"), ColCreatedAt, "Created At"),
     spss_value_labels |-> SpssValueLabels(m.value_labels.order, m, names),
     text_variables |-> TextVariables(m, names)]

\* df.columns
Columns(frame) == IF frame = <<>> THEN {} ELSE DOMAIN frame[1]

\* frame[col]
Column(frame, col) == [r \in 1..Len(frame) |-> frame[r][col]]

\* whether pd.to_numeric reads the string as an integer (the model's texts
\* hold no other numerals)
IsIntLiteral(s) ==
    LET digits == IF StartsWith(s, "-") THEN Tail(s) ELSE s
    IN  Len(digits) > 0 /\ \A i \in 1..Len(digits) : digits[i] \in Digit

RECURSIVE ParseNat(_)
ParseNat(s) ==
    IF s = <<>> THEN 0
    ELSE 10 * ParseNat(SubSeq(s, 1, Len(s) - 1))
         + (CHOOSE d \in 0..9 : NatToStr(d) = <<s[Len(s)]>>)

ParseInt(s) == IF StartsWith(s, "-") THEN -ParseNat(Tail(s)) ELSE ParseNat(s)

\* line 293: fillna('').astype(str)
CoerceText(v) ==
    CASE v.k = "str" -> v
      [] v.k = "int" -> StrV(IntToStr(v.n))
      [] OTHER -> StrV(<<>>)

\* line 299: pd.to_numeric(errors='coerce').fillna(-999).astype(int)
CoerceNumeric(v) ==
    CASE v.k = "int" -> v
      [] v.k = "str" -> IF IsIntLiteral(v.s) THEN IntV(ParseInt(v.s)) ELSE IntV(Missing)
      [] OTHER -> IntV(Missing)

\* lines 290-299
CoerceFrame(frame, text_variables) ==
    [r \in 1..Len(frame) |->
        [col \in DOMAIN frame[r] |->
            IF col \in text_variables THEN CoerceText(frame[r][col])
            ELSE IF col \in {ColResponseId, ColCreatedAt} THEN frame[r][col]
            ELSE CoerceNumeric(frame[r][col])]]

\* lines 349-364: the measurement level handed to write_sav for each column
MeasurementInfo(frame, m, names) ==
    [col \in Columns(frame) |->
        LET origs == {i \in 1..Len(m.questions.order) : names[m.questions.order[i]] = col}
        IN  IF origs = {} THEN "nominal"
            ELSE LET original_key ==
                         m.questions.order[CHOOSE i \in origs : \A j \in origs : i <= j]
                 IN  IF original_key \in DOMAIN m.measurement_types
                     THEN IF m.questions.def[original_key].type = "Text" THEN "nominal"
                          ELSE IF m.measurement_types[original_key] = "Scale"
                               THEN "scale" ELSE "nominal"
                     ELSE "nominal"]

\* Series.unique(): the distinct values in order of first appearance
RECURSIVE Unique(_)
Unique(values) ==
    IF values = <<>> THEN <<>>
    ELSE LET front == Unique(SubSeq(values, 1, Len(values) - 1))
             last  == values[Len(values)]
         IN  IF \E i \in 1..Len(front) : front[i] = last THEN front ELSE Append(front, last)

\* line 388: the code of the idx-th (from 0) unique text
\* (CodeOfIndexFromMissing: the same counted from the sentinel)
CodeOfIndexFromMissing(idx) == Missing + idx
CodeOfIndex(idx) == idx

\* lines 388-389: text_to_code
TextToCode(unique_texts) ==
    [text \in {unique_texts[i] : i \in 1..Len(unique_texts)} \cup {StrV(<<>>)} |->
        IF text = StrV(<<>>) THEN Missing
        ELSE CodeOfIndex((CHOOSE i \in 1..Len(unique_texts) : unique_texts[i] = text) - 1)]

\* line 395: code_to_text, built in the order of text_to_code's items
RECURSIVE CodeToText(_, _)
CodeToText(unique_texts, text_to_code) ==
    IF unique_texts = <<>> THEN EmptyDict
    ELSE LET front == CodeToText(SubSeq(unique_texts, 1, Len(unique_texts) - 1), text_to_code)
             text  == unique_texts[Len(unique_texts)]
         IN  IF text # StrV(<<>>) THEN DictSet(front, text_to_code[text], text.s) ELSE front

\* lines 387-397 for every column of text_variables that the frame has
TextCodes(frame, text_variables) ==
    [col \in text_variables \cap Columns(frame) |->
        LET unique_texts == Unique(Column(frame, col))
            text_to_code == TextToCode(unique_texts)
        IN  [text_to_code |-> text_to_code,
             code_to_text |-> CodeToText(unique_texts, text_to_code)]]

\* line 392: the frame with the text columns replaced by their codes
EncodeFrame(frame, codes) ==
    [r \in 1..Len(frame) |->
        [col \in DOMAIN frame[r] |->
            IF col \in DOMAIN codes
            THEN IntV(codes[col].text_to_code[frame[r][col]])
            ELSE frame[r][col]]]

\* lines 381-400.  The field df is the frame the name df refers to afterwards
\* (FallbackEncodeInPlace: the same without the copy of line 381, so that df
\* itself is encoded).
FallbackEncodeInPlace(frame, lbl) ==
    LET codes == TextCodes(frame, lbl.text_variables)
        tvl   == [col \in {c \in DOMAIN codes : codes[c].code_to_text # EmptyDict} |->
                     codes[col].code_to_text]
    IN  [df |-> EncodeFrame(frame, codes),
         df_numeric |-> EncodeFrame(frame, codes),
         text_value_labels |-> tvl,
         combined_value_labels |-> tvl @@ lbl.spss_value_labels]
FallbackEncode(frame, lbl) ==
    LET codes == TextCodes(frame, lbl.text_variables)
        tvl   == [col \in {c \in DOMAIN codes : codes[c].code_to_text # EmptyDict} |->
                     codes[col].code_to_text]
    IN  [df |-> frame,
         df_numeric |-> EncodeFrame(frame, codes),
         text_value_labels |-> tvl,
         combined_value_labels |-> tvl @@ lbl.spss_value_labels]

\* lines 425-426: what follows the rejection of the fallback export: the
\* handler prints a note (AfterFallbackRejectedRaise: the same without the
\* handler, the exception going on to line 475).
AfterFallbackRejectedRaise == [pc |-> "raised", raised |-> "ExportError"]
AfterFallbackRejected == [pc |-> "metadata", raised |-> "none"]

\* lines 266-287
Main_BuildLabels ==
    /\ pc = "returned"
    /\ labels' = BuildLabels(mappings, spss_names)
    /\ pc' = "coerce"
    /\ UNCHANGED <<mappings, key_i, spss_names, name_counter, processed_responses,
                   processed, answers, df, df_numeric, text_value_labels,
                   combined_value_labels, export_log, raised>>

\* lines 290-299
Main_Coerce ==
    /\ pc = "coerce"
    /\ df' = CoerceFrame(df, labels.text_variables)
    /\ pc' = "save"
    /\ UNCHANGED <<mappings, key_i, spss_names, name_counter, processed_responses,
                   processed, answers, labels, df_numeric, text_value_labels,
                   combined_value_labels, export_log, raised>>

\* lines 302-343: the CSV and Excel files are written
Main_SaveTabular ==
    /\ pc = "save"
    /\ pc' = "export"
    /\ UNCHANGED <<mappings, key_i, spss_names, name_counter, processed_responses,
                   processed, answers, df, labels, df_numeric, text_value_labels,
                   combined_value_labels, export_log, raised>>

\* lines 302-343: writing a file fails, which main's handler of line 475 catches
Main_SaveTabularFails ==
    /\ pc = "save"
    /\ raised' = "OSError"
    /\ pc' = "raised"
    /\ UNCHANGED <<mappings, key_i, spss_names, name_counter, processed_responses,
                   processed, answers, df, labels, df_numeric, text_value_labels,
                   combined_value_labels, export_log>>

\* line 346: pyreadstat could not be imported
Main_ExportUnavailable ==
    /\ pc = "export"
    /\ pc' = "metadata"
    /\ UNCHANGED <<mappings, key_i, spss_names, name_counter, processed_responses,
                   processed, answers, df, labels, df_numeric, text_value_labels,
                   combined_value_labels, export_log, raised>>

\* a call of pyreadstat.write_sav and its outcome
ExportCall(tier, ok, frame, value_labels) ==
    [tier |-> tier, ok |-> ok, frame |-> frame, value_labels |-> value_labels,
     variable_measure |-> MeasurementInfo(df, mappings, spss_names)]

\* lines 347-375: the primary export is accepted
Main_PrimaryExportOk ==
    /\ pc = "export"
    /\ export_log' = Append(export_log,
                            ExportCall("primary", TRUE, df, labels.spss_value_labels))
    /\ pc' = "metadata"
    /\ UNCHANGED <<mappings, key_i, spss_names, name_counter, processed_responses,
                   processed, answers, df, labels, df_numeric, text_value_labels,
                   combined_value_labels, raised>>

\* lines 347-378: the primary export is rejected
Main_PrimaryExportRejected ==
    /\ pc = "export"
    /\ export_log' = Append(export_log,
                            ExportCall("primary", FALSE, df, labels.spss_value_labels))
    /\ pc' = "fallback"
    /\ UNCHANGED <<mappings, key_i, spss_names, name_counter, processed_responses,
                   processed, answers, df, labels, df_numeric, text_value_labels,
                   combined_value_labels, raised>>

\* lines 381-400
Main_FallbackEncode ==
    /\ pc = "fallback"
    /\ LET r == FallbackEncode(df, labels)
       IN  /\ df' = r.df
           /\ df_numeric' = r.df_numeric
           /\ text_value_labels' = r.text_value_labels
           /\ combined_value_labels' = r.combined_value_labels
    /\ pc' = "fallback_export"
    /\ UNCHANGED <<mappings, key_i, spss_names, name_counter, processed_responses,
                   processed, answers, labels, export_log, raised>>

\* lines 402-423: the fallback export is accepted
Main_FallbackExportOk ==
    /\ pc = "fallback_export"
    /\ export_log' = Append(export_log,
                            ExportCall("fallback", TRUE, df_numeric, combined_value_labels))
    /\ pc' = "metadata"
    /\ UNCHANGED <<mappings, key_i, spss_names, name_counter, processed_responses,
                   processed, answers, df, labels, df_numeric, text_value_labels,
                   combined_value_labels, raised>>

\* lines 402-409, 425-426: the fallback export is rejected too
Main_FallbackExportRejected ==
    /\ pc = "fallback_export"
    /\ export_log' = Append(export_log,
                            ExportCall("fallback", FALSE, df_numeric, combined_value_labels))
    /\ pc' = AfterFallbackRejected.pc
    /\ raised' = AfterFallbackRejected.raised
    /\ UNCHANGED <<mappings, key_i, spss_names, name_counter, processed_responses,
                   processed, answers, df, labels, df_numeric, text_value_labels,
                   combined_value_labels>>

\* lines 428-470: the metadata and the raw data are saved, success is printed
Main_SaveMetadata ==
    /\ pc = "metadata"
    /\ pc' = "done"
    /\ UNCHANGED <<mappings, key_i, spss_names, name_counter, processed_responses,
                   processed, answers, df, labels, df_numeric, text_value_labels,
                   combined_value_labels, export_log, raised>>

\* lines 475-477: an exception of the run is printed
Main_ReportError ==
    /\ pc = "raised"
    /\ pc' = "error_reported"
    /\ UNCHANGED <<mappings, key_i, spss_names, name_counter, processed_responses,
                   processed, answers, df, labels, df_numeric, text_value_labels,
                   combined_value_labels, export_log, raised>>

\* Responses of the main specification: at most MaxRows responses of at most
\* MaxRowAnswers answers each, the answers being texts for the Text elements,
\* values for the rows and choices, and a matrix answer without row_id.
MaxRows == 3
MaxRowAnswers == 2

MainAnswerPool(m) ==
    {a \in AnswerPool(m) :
        \/ /\ a.type = "text"
           /\ a.id \in DOMAIN m.element_to_key
           /\ m.questions.def[m.element_to_key[a.id]].type = "Text"
        \/ /\ a.type = "choice" /\ a.id \in DOMAIN m.choice_to_key /\ a.value # NoneV
        \/ /\ a.type = "matrix" /\ a.id = NoId /\ a.value = NoneV}

MainBeginResponse == PR_BeginResponse(MaxRows)
MainHandleAnswer == PR_HandleAnswer(MainAnswerPool(mappings), MaxRowAnswers)

Next ==
    \/ PR_CreateNames
    \/ MainBeginResponse
    \/ MainHandleAnswer
    \/ PR_AppendRow
    \/ PR_Return
    \/ Main_BuildLabels
    \/ Main_Coerce
    \/ Main_SaveTabular
    \/ Main_SaveTabularFails
    \/ Main_ExportUnavailable
    \/ Main_PrimaryExportOk
    \/ Main_PrimaryExportRejected
    \/ Main_FallbackEncode
    \/ Main_FallbackExportOk
    \/ Main_FallbackExportRejected
    \/ Main_SaveMetadata
    \/ Main_ReportError

Spec == InitSurvey /\ [][Next]_vars

-----------------------------------------------------------------------------
(* process_responses on responses with several answers for one column *)

\* lines 193-239 for one response: the row of its answers, from the seeded
\* defaults on
RECURSIVE ApplyAnswers(_, _, _, _)
ApplyAnswers(row, answer_list, m, names) ==
    IF answer_list = <<>> THEN row
    ELSE ApplyAnswers(ApplyAnswer(row, Head(answer_list), m, names),
                      Tail(answer_list), m, names)

FlattenResponse(response_id, created_at, answer_list, m, names) ==
    ApplyAnswers(SeedRow(response_id, created_at, m, names), answer_list, m, names)

\* Responses of the ordering specification: at most MaxOrderResponses
\* responses of at most MaxOrderAnswers answers each.  The answers are two
\* texts for every Text element, a number for every element that takes
\* numbers or texts, a value for every row or element of id_to_key, a choice
\* without value, a choice that no question has, and a number answer without
\* element_id.
MaxOrderResponses == 2
MaxOrderAnswers == 2

OrderAnswerPool(m) ==
    {Answer("text", i, NoneV, t) :
        i \in {e \in DOMAIN m.element_to_key :
                  m.questions.def[m.element_to_key[e]].type = "Text"},
        t \in {StrV(<<"a">>), StrV(<<" ","b"," ">>)}}
    \cup {Answer("number", i, IntV(1), NoneV) :
               i \in {e \in DOMAIN m.element_to_key :
                         m.questions.def[m.element_to_key[e]].type = "Number"}}
    \cup {Answer("matrix", i, IntV(2), NoneV) : i \in DOMAIN m.id_to_key}
    \cup {Answer("choice", i, NoneV, NoneV) : i \in DOMAIN m.choice_to_key}
    \cup {Answer("choice", UnknownId, IntV(2), NoneV), Answer("number", NoId, IntV(1), NoneV)}

OrderBeginResponse == PR_BeginResponse(MaxOrderResponses)
OrderHandleAnswer == PR_HandleAnswer(OrderAnswerPool(mappings), MaxOrderAnswers)

NextOrder ==
    \/ PR_CreateNames
    \/ OrderBeginResponse
    \/ OrderHandleAnswer
    \/ PR_AppendRow
    \/ PR_Return

SpecOrder == InitSurvey /\ [][NextOrder]_vars

-----------------------------------------------------------------------------
(* Claims about create_spss_variable_names (SpecNames) *)

Keys == mappings.questions.order
KeyIndex == 1..Len(Keys)
NameOf(i) == spss_names[Keys[i]]
NameChars == Lower \cup Upper \cup Digit \cup {"_"}
IsFallbackKey(key) == ~IsValidShortName(key) /\ ~IsUuidShaped(key)
EndsWith(s, t) == Len(s) >= Len(t) /\ SubSeq(s, Len(s) - Len(t) + 1, Len(s)) = t
\* the names given to the keys before the i-th
NamesBefore(i) == {NameOf(m) : m \in 1..(i - 1)}

\* C1: the returned map is total over the registered keys and no two distinct
\* keys are given the same name.
C1_NamesTotalInjective ==
    pc = "named" =>
        /\ DOMAIN spss_names = {Keys[i] : i \in KeyIndex}
        /\ \A i, j \in KeyIndex : i # j => NameOf(i) # NameOf(j)

\* C3: every returned name has at most 64 characters, all of them letters,
\* digits or underscores.
C3_NamesWellFormed ==
    pc = "named" =>
        \A i \in KeyIndex :
            /\ Len(NameOf(i)) <= MaxNameLen
            /\ \A p \in 1..Len(NameOf(i)) : NameOf(i)[p] \in NameChars

\* C4: the n-th UUID-shaped key in document order is named "Q" followed by n
\* zero-padded to three digits, whatever the other keys are.
C4_PlaceholderOrdinal ==
    pc = "named" =>
        \A i \in KeyIndex :
            IsUuidShaped(Keys[i]) =>
                NameOf(i) = <<"Q">> \o
                    Format03d(Cardinality({j \in 1..i : IsUuidShaped(Keys[j])}))

\* i and j are the first two fallback keys whose names truncate, at 60
\* characters, to the same base
FirstTwoOfBase(i, j) ==
    /\ i < j
    /\ IsFallbackKey(Keys[i]) /\ IsFallbackKey(Keys[j])
    /\ Len(CleanName(Keys[i])) > BaseLen /\ Len(CleanName(Keys[j])) > BaseLen
    /\ BaseName(CleanName(Keys[i])) = BaseName(CleanName(Keys[j]))
    /\ \A m \in 1..(j - 1) :
          (m # i /\ IsFallbackKey(Keys[m])) =>
              BaseName(CleanName(Keys[m])) # BaseName(CleanName(Keys[i]))

\* C5 as claimed: two fallback keys that truncate at 60 characters to the same
\* base are named with the suffixes "_1" and "_2", in order of encounter.
C5_SuffixesOneAndTwo ==
    pc = "named" =>
        \A i, j \in KeyIndex :
            FirstTwoOfBase(i, j) =>
                EndsWith(NameOf(i), <<"_","1">>) /\ EndsWith(NameOf(j), <<"_","2">>)

\* i and j are fallback keys with the same cleaned name, unused when i is met
SameCleanName(i, j) ==
    /\ i < j
    /\ IsFallbackKey(Keys[i]) /\ IsFallbackKey(Keys[j])
    /\ CleanName(Keys[i]) = CleanName(Keys[j])
    /\ CleanName(Keys[i]) \notin NamesBefore(i)

\* the least counter from 1 on whose suffixed name no key before the j-th has
LeastFreeSuffix(base_name, j) ==
    CHOOSE c \in 1..j :
        /\ Suffixed(base_name, c) \notin NamesBefore(j)
        /\ \A b \in 1..(c - 1) : Suffixed(base_name, b) \in NamesBefore(j)

\* C5 amended: of two fallback keys with the same cleaned name, the first keeps
\* the cleaned name without a suffix and the second is named the 60-character
\* base followed by "_k", k the least counter from 1 on whose name is unused:
\* "_1" unless that name is taken.
C5_FirstKeepsSecondSuffixed ==
    pc = "named" =>
        \A i, j \in KeyIndex :
            SameCleanName(i, j) =>
                /\ NameOf(i) = CleanName(Keys[i])
                /\ NameOf(j) = Suffixed(BaseName(CleanName(Keys[j])),
                                        LeastFreeSuffix(BaseName(CleanName(Keys[j])), j))
                /\ (Suffixed(BaseName(CleanName(Keys[j])), 1) \notin NamesBefore(j)
                      => EndsWith(NameOf(j), <<"_","1">>))

\* two long fallback keys with the same cleaned name have been named, the
\* second with the suffix "_1"
C5_Witness ==
    /\ pc = "named"
    /\ \E i, j \in KeyIndex :
          /\ SameCleanName(i, j)
          /\ Len(CleanName(Keys[i])) > BaseLen
          /\ EndsWith(NameOf(j), <<"_","1">>)

-----------------------------------------------------------------------------
(* Claims about process_responses (SpecFlatten) *)

\* the rows appended so far
Rows == {processed_responses[i] : i \in 1..Len(processed_responses)}

\* C2: every row has exactly one entry per registered question key plus the
\* two metadata columns.
C2_RowHasEveryColumn ==
    \A row \in Rows : Cardinality(DOMAIN row) = Len(mappings.questions.order) + 2

\* an answer with an unknown discriminator, an absent or unresolvable target
\* id, or a null or absent value
IsMalformed(answer) ==
    \/ answer.type \notin {"matrix", "choice", "number", "text"}
    \/ answer.id = NoId
    \/ Resolve(answer, mappings).question_key = NoneV
    \/ answer.type \in {"matrix", "choice", "number"} /\ answer.value = NoneV
    \/ answer.type = "text" /\ answer.text = NoneV

\* C6: a response all of whose answers so far are malformed has raised nothing
\* and its row holds the seeded defaults.
C6_MalformedAnswersDropped ==
    (/\ pc \in {"answers", "raised"}
     /\ answers # <<>>
     /\ \A i \in 1..Len(answers) : IsMalformed(answers[i]))
    => (/\ raised = "none"
        /\ processed = SeedRow(IntV(Len(processed_responses) + 1), NoneV,
                               mappings, spss_names))

-----------------------------------------------------------------------------
(* Claims about the two-tier export of main (Spec) *)

\* write_sav has rejected the export of the given tier
Rejected(tier) ==
    \E i \in 1..Len(export_log) : export_log[i].tier = tier /\ ~export_log[i].ok

BothRejected == Rejected("primary") /\ Rejected("fallback")

FallbackEncoded == pc = "fallback_export" \/ Len(export_log) >= 2

\* the Text columns of the dataset
TextColumns == labels.text_variables \cap Columns(df)

\* C8: after the fallback re-encoding, whatever the fallback export's outcome,
\* df is still the coerced dataset with its Text columns holding strings, and
\* the column labels and the registry's value labels are the ones built before.
C8_FallbackLeavesDatasetAlone ==
    FallbackEncoded =>
        /\ df = CoerceFrame(processed_responses, labels.text_variables)
        /\ \A col \in TextColumns : \A r \in 1..Len(df) : df[r][col].k = "str"
        /\ labels = BuildLabels(mappings, spss_names)

\* the re-encoding produced codes and labels of its own for a Text column
\* holding a non-empty string, and the fallback export has been called
C8_Witness ==
    /\ Len(export_log) >= 2
    /\ df_numeric # df
    /\ \E col \in TextColumns :
          /\ col \in DOMAIN text_value_labels
          /\ \E r \in 1..Len(df) : df[r][col].s # <<>> /\ df_numeric[r][col].k = "int"

\* the distinct non-empty strings of a Text column, in order of first appearance
NonEmptyTexts(col) == SelectSeq(Unique(Column(df, col)), LAMBDA v : v # StrV(<<>>))

\* the code that replaced the text in the re-encoded column
CodeOf(col, text) == df_numeric[CHOOSE r \in 1..Len(df) : df[r][col] = text][col].n

\* C9: in every re-encoded Text column the distinct non-empty values have
\* consecutive codes in order of first appearance, and the empty string has
\* the code -999.
C9_DenseCodesInFirstSeenOrder ==
    FallbackEncoded =>
        \A col \in TextColumns :
            /\ \A j \in 1..Len(NonEmptyTexts(col)) :
                  CodeOf(col, NonEmptyTexts(col)[j])
                      = CodeOf(col, NonEmptyTexts(col)[1]) + (j - 1)
            /\ \A r \in 1..Len(df) :
                  df[r][col] = StrV(<<>>) => df_numeric[r][col] = IntV(Missing)

\* C10: decoding a re-encoded Text column through its code-to-text table gives
\* back the text of every row, the empty string and -999 standing for each
\* other; the table handed to the export is the same one.
C10_DecodeRestoresText ==
    FallbackEncoded =>
        \A col \in TextColumns : \A r \in 1..Len(df) :
            IF df[r][col].s = <<>>
            THEN df_numeric[r][col] = IntV(Missing)
            ELSE /\ df_numeric[r][col].k = "int"
                 /\ df_numeric[r][col].n # Missing
                 /\ col \in DOMAIN text_value_labels
                 /\ df_numeric[r][col].n \in DOMAIN text_value_labels[col]
                 /\ text_value_labels[col][df_numeric[r][col].n] = df[r][col].s
                 /\ combined_value_labels[col] = text_value_labels[col]

\* a re-encoded Text column holds two distinct non-empty texts and an empty one
C10_Witness ==
    /\ FallbackEncoded
    /\ \E col \in TextColumns :
          /\ Len(NonEmptyTexts(col)) >= 2
          /\ \E r \in 1..Len(df) : df[r][col] = StrV(<<>>)

-----------------------------------------------------------------------------
(* Claims about the order of answers and of responses (SpecOrder) *)

\* whether the answer at position i of the current response is written, and
\* the column it is written to
Written(i) == IsWritten(Resolve(answers[i], mappings))

TargetColumn(i) ==
    LET key == Resolve(answers[i], mappings).question_key.s
    IN  IF key \in DOMAIN spss_names THEN spss_names[key] ELSE key

\* the answers of the current response, by position, written to the column
WrittenTo(col) == {i \in 1..Len(answers) : Written(i) /\ TargetColumn(i) = col}

\* the row the answers of the current response have gone to: the one being
\* built, or the one just appended
CurrentRow ==
    IF pc = "responses" /\ processed_responses # <<>>
    THEN processed_responses[Len(processed_responses)]
    ELSE processed

\* C11: a column that several answers of the response were written to holds
\* the value of the last of them in list order: every written answer that no
\* later answer of the response overwrites is the value of its column.
C11_LastAnswerWins ==
    \A i \in 1..Len(answers) :
        (/\ Written(i)
         /\ \A j \in (i + 1)..Len(answers) :
               ~(Written(j) /\ TargetColumn(j) = TargetColumn(i)))
        => /\ TargetColumn(i) \in DOMAIN CurrentRow
           /\ CurrentRow[TargetColumn(i)] = Resolve(answers[i], mappings).value

\* two answers with different values were written to one column, which holds
\* the value of the second
C11_Witness ==
    /\ pc = "answers"
    /\ \E col \in DOMAIN processed : \E i, j \in WrittenTo(col) :
          /\ i < j
          /\ \A k \in WrittenTo(col) : k <= j
          /\ Resolve(answers[i], mappings).value # Resolve(answers[j], mappings).value
          /\ processed[col] = Resolve(answers[j], mappings).value

\* the position of the current response among the responses
CurrentId ==
    IF pc = "responses" THEN Len(processed_responses) ELSE Len(processed_responses) + 1

\* C12: the row of a response is the row of its own answers from the seeded
\* defaults on, whatever responses were flattened before it; once appended a
\* row is not changed by the responses after it; and flattening changes
\* neither the registry with its indices nor the name map.
C12_RowDependsOnResponseOnly ==
    /\ [](CurrentRow # EmptyDict =>
              CurrentRow = FlattenResponse(IntV(CurrentId), NoneV, answers, mappings,
                                           spss_names))
    /\ [][pc # "start" =>
              /\ mappings' = mappings
              /\ spss_names' = spss_names
              /\ Len(processed_responses') >= Len(processed_responses)
              /\ \A i \in 1..Len(processed_responses) :
                    processed_responses'[i] = processed_responses[i]]_vars

\* two responses have been flattened, the first with a value in a column that
\* holds its default in the row of the second
C12_Witness ==
    /\ pc = "responses"
    /\ Len(processed_responses) = 2
    /\ \E col \in DOMAIN processed_responses[1] \ {ColResponseId, ColCreatedAt} :
          /\ processed_responses[1][col] # SeedRow(IntV(1), NoneV, mappings, spss_names)[col]
          /\ processed_responses[2][col] = SeedRow(IntV(2), NoneV, mappings, spss_names)[col]

====
